---------------------------- MODULE Spec2Model ----------------------------
(***************************************************************************)
(* Sign-In with Ethereum (SIWE) session engine of scaffold-siwe-ext.       *)
(*                                                                         *)
(* The server keeps no state of its own: the session record lives in the   *)
(* encrypted "siwe-session" cookie the browser holds.  Every route handler *)
(* loads the record from the cookie, works on it, and (when it calls       *)
(* save() or destroy()) writes the cookie back.  The variable `session` is *)
(* the record in the browser's cookie; a JavaScript object is modelled as  *)
(* a function whose DOMAIN is the set of properties that are defined.      *)
(*                                                                         *)
(* Route handlers modelled (one action each, the whole handler):           *)
(*   NonceGET       GET    /api/siwe/nonce                                 *)
(*   SessionGET     GET    /api/siwe/session                               *)
(*   SessionDELETE  DELETE /api/siwe/session                               *)
(*   VerifyPOST     POST   /api/siwe/verify                                *)
(*                                                                         *)
(* Specifications:                                                         *)
(*   Spec        the routes, called in any order with any input            *)
(*   SpecClient  the useSiwe hook in a page, calling the routes            *)
(*   SpecWatch   the hook left alone: only its effects make calls; a       *)
(*               request is eventually handled and answered unless it      *)
(*               fails                                                     *)
(*   SpecRace    verify requests handled in steps (load, then save)        *)
(*   SpecBoot    the server starting in any environment                    *)
(*   SpecRoutes  the routes with a session that may fail to load, and      *)
(*               with sign-ins by smart-contract accounts on any chain     *)
(*   SpecReplay  the routes called by a client that keeps copies of its    *)
(*               cookies and presents them again                           *)
(*   SpecLive    the hook with the caller invoking signIn and signOut,     *)
(*               every request of theirs answered or failing               *)
(***************************************************************************)
EXTENDS Integers, FiniteSets, Sequences, TLC

VARIABLES
    session,   \* the session record sealed in the browser's cookie
    now,       \* the server clock (Date.now())
    issued,    \* how many nonces generateSiweNonce has produced so far
    req,       \* the last request handled: its route and its inputs
    resp,      \* the response to it: status and JSON body
    client,    \* useSiwe: the SiweState held by useState
    wallet,    \* useAccount: isConnected and, when known, the connected address
    hasSeenWalletConnected,   \* useSiwe: the useRef flag
    signInCall,   \* the signIn call in flight, if any, and how far it got
    checkCall,    \* the checkSession call in flight, if any
    signOuts,     \* the signOut calls in flight: awaiting the server, answered
    ev,           \* what the effects of the hook did in the last step, and history
    calls,        \* verify requests handled step by step: load, then save;
                  \* in SpecReplay, the copies of cookies the client keeps
    env,          \* process.env of the server: NODE_ENV and IRON_SESSION_SECRET
    sessionOptions   \* utils/siwe.ts: not loaded, loaded, or failed at load

hostVars == <<env, sessionOptions>>
serverVars == <<session, now, issued, req, resp, calls, hostVars>>
clientVars == <<client, wallet, hasSeenWalletConnected, signInCall, checkCall, signOuts, ev>>
vars == <<session, now, issued, req, resp, calls, env, sessionOptions,
          client, wallet, hasSeenWalletConnected, signInCall, checkCall, signOuts, ev>>

(***************************************************************************)
(* Bounds of the model.                                                    *)
(***************************************************************************)
MaxTime == 2      \* the clock runs over 0..MaxTime
MaxNonces == 2    \* generateSiweNonce is called at most MaxNonces times
MaxSignIns == 1   \* signIn calls that pass the wallet check while a page is open
MaxSignOuts == 1  \* signOut calls in flight up to which the caller and the wallet act

Times == 0..MaxTime
Nonces == 1..MaxNonces          \* the n-th nonce generated is the token n

(***************************************************************************)
(* Input alphabets.                                                        *)
(***************************************************************************)
ServerHost == "app.example"
Hosts == {ServerHost, ""}                 \* Host header; "" = header absent
Domains == {"app.example", "evil.example"}
Addresses == {"0xA", "0xB"}
MsgTimes == {1}                           \* timestamps a message may carry
Signatures == {"sigA", "sigB"}            \* made over the submitted text

\* The key that produced a signature over the submitted message text.
Signer(sig) == IF sig = "sigA" THEN "0xA" ELSE "0xB"

(***************************************************************************)
(* JavaScript objects: partial records.                                    *)
(***************************************************************************)
EmptyObj == [k \in {} |-> TRUE]
Has(o, k) == k \in DOMAIN o
SetField(o, k, v) == [x \in (DOMAIN o) \cup {k} |-> IF x = k THEN v ELSE o[x]]
DelField(o, k) == [x \in (DOMAIN o) \ {k} |-> o[x]]
Pick(o, ks) == [x \in (DOMAIN o) \cap ks |-> o[x]]


(***************************************************************************)
(* EIP-4361 messages.  The text of a message is modelled by the two parts  *)
(* viem's parseSiweMessage matches in it: the prefix (domain, address) and *)
(* the suffix (chainId, nonce and the optional timestamps).  A part that   *)
(* does not match contributes no property to the parsed message.           *)
(***************************************************************************)
Optional(k, S) == {EmptyObj} \cup {SetField(EmptyObj, k, v) : v \in S}

\* An account signs in on the chain its wallet is connected to.
Accounts == {[address |-> "0xA", chainId |-> 1], [address |-> "0xB", chainId |-> 5]}

Prefix(d, acct) == [domain |-> d, address |-> acct.address]
Suffix(acct, n, e, b) == [chainId |-> acct.chainId, nonce |-> n] @@ e @@ b

\* Well-formed messages: both parts match.
FullMessages ==
    {[prefix |-> Prefix(d, acct), suffix |-> Suffix(acct, n, e, b)] :
        d \in Domains, acct \in Accounts, n \in Nonces,
        e \in Optional("expirationTime", MsgTimes),
        b \in Optional("notBefore", MsgTimes)}

\* Texts in which a part does not match: the prefix, the suffix, or both.
PartialMessages ==
    {[prefix |-> EmptyObj, suffix |-> EmptyObj]}
    \cup {[prefix |-> Prefix(d, acct), suffix |-> EmptyObj] :
            d \in Domains, acct \in Accounts}
    \cup {[prefix |-> EmptyObj, suffix |-> Suffix(acct, n, EmptyObj, EmptyObj)] :
            acct \in Accounts, n \in Nonces}

Messages == FullMessages \cup PartialMessages

\* JSON bodies of a verify request: well-shaped ones, and ones with a field
\* missing (or empty, or not a string).
Bodies ==
    [message : Messages, signature : Signatures]
    \cup {[signature |-> s] : s \in Signatures}
    \cup {[message |-> m] : m \in PartialMessages}
    \cup {EmptyObj}

\* Bodies sent in requests that carry no Host header: no body fields, or a
\* full message without time limits.
HostlessBodies ==
    {EmptyObj} \cup
    {b \in [message : FullMessages, signature : Signatures] :
        DOMAIN b.message.suffix = {"chainId", "nonce"}}

(***************************************************************************)
(* Response texts.  An error text is a sequence of its pieces, so that the *)
(* domain-mismatch text can carry the two domains it interpolates.         *)
(***************************************************************************)
ErrMissingMessage == <<"Missing or invalid 'message' field. Expected a string.">>
ErrMissingSignature == <<"Missing or invalid 'signature' field. Expected a hex string.">>
ErrNoNonce == <<"No nonce found in session. Please call GET /api/siwe/nonce first.">>
ErrInvalidFormat == <<"Invalid SIWE message format. Could not parse EIP-4361 message.">>
ErrNoHost == <<"Could not determine server domain for verification.">>
ErrUnexpected == <<"An unexpected error occurred during verification. Please try again.">>
ErrDomain(expected, got) == <<"Domain mismatch. Expected: ", expected, ", Got: ", got>>
ErrNonce == <<"Nonce mismatch. Please request a new nonce and try again.">>
ErrExpired == <<"Message has expired. Please sign a new message.">>
ErrNotYetValid == <<"Message is not yet valid. Please wait and try again.">>
ErrNoAddress == <<"Message is missing required field: address">>
ErrNoChainId == <<"Message is missing required field: chainId">>
ErrSignature == <<"Invalid signature. The message was not signed by the claimed address.">>

defaultSession == [isLoggedIn |-> FALSE]

(***************************************************************************)
(* The chains the verify route knows, each named by its chain id.          *)
(***************************************************************************)
mainnet == 1
SUPPORTED_CHAINS == {mainnet, 137, 10, 42161, 8453, 100, 534352, 324, 11155111, 31337}

\* A property that may be undefined, as the set of its values: none or one.
Opt(o, k) == IF Has(o, k) THEN {o[k]} ELSE {}

\* Mutant of getPublicClientForChain: the client of the chain asked for,
\* supported or not.
getPublicClientForChain_NoFallback(chainId) ==
    [chain |-> IF chainId # {} THEN CHOOSE c \in chainId : TRUE ELSE mainnet]

\* getPublicClientForChain(chainId): the client is told by its chain.
\*   const chain = chainId ? SUPPORTED_CHAINS[chainId] : mainnet;
\*   createPublicClient({ chain: chain || mainnet, ... })
getPublicClientForChain(chainId) ==
    LET chain == IF chainId # {} /\ chainId # {0}
                 THEN chainId \cap SUPPORTED_CHAINS
                 ELSE {mainnet}
    IN  [chain |-> IF chain # {} THEN CHOOSE c \in chain : TRUE ELSE mainnet]

(***************************************************************************)
(* viem/siwe, as the verify route calls it.                                *)
(***************************************************************************)
\* parseSiweMessage: { ...prefix groups, ...suffix groups }; it does not throw.
parseSiweMessage(message) == message.prefix @@ message.suffix

\* Mutants of validateSiweMessage: one check left out.
validateSiweMessage_NoExpiry(message, domain, nonce, time) ==
    /\ ~(domain # "" /\ (~Has(message, "domain") \/ message.domain # domain))
    /\ ~(~Has(message, "nonce") \/ message.nonce # nonce)
    /\ ~(Has(message, "notBefore") /\ time < message.notBefore)
    /\ Has(message, "address")

validateSiweMessage_NoDomain(message, domain, nonce, time) ==
    /\ ~(~Has(message, "nonce") \/ message.nonce # nonce)
    /\ ~(Has(message, "expirationTime") /\ time >= message.expirationTime)
    /\ ~(Has(message, "notBefore") /\ time < message.notBefore)
    /\ Has(message, "address")

\* validateSiweMessage({ domain, message, nonce, time })
validateSiweMessage(message, domain, nonce, time) ==
    /\ ~(domain # "" /\ (~Has(message, "domain") \/ message.domain # domain))
    /\ ~(~Has(message, "nonce") \/ message.nonce # nonce)
    /\ ~(Has(message, "expirationTime") /\ time >= message.expirationTime)
    /\ ~(Has(message, "notBefore") /\ time < message.notBefore)
    /\ Has(message, "address")

\* Smart-contract accounts: the chains each one is deployed on, and the key
\* whose signatures its isValidSignature accepts.  Any other address is an
\* externally owned account.
Deployed(address) ==
    IF address = "0xC" THEN {mainnet}
    ELSE IF address = "0xD" THEN {31337}
    ELSE {}
Owner(address) == IF address = "0xC" THEN "0xA" ELSE "0xB"

\* verifyHash(client, { address, hash, signature }): the signature oracle of
\* the client's chain.  Where `address` has code, the contract is asked
\* (ERC-1271); elsewhere the signature must recover to `address`.
verifyHash(publicClient, address, signature) ==
    IF publicClient.chain \in Deployed(address)
    THEN Signer(signature) = Owner(address)
    ELSE Signer(signature) = address

\* verifySiweMessage(client, { message, signature, domain, nonce }) at `time`
verifySiweMessage(publicClient, message, signature, domain, nonce, time) ==
    LET parsed == parseSiweMessage(message) IN
    /\ Has(parsed, "address")
    /\ validateSiweMessage(parsed, domain, nonce, time)
    /\ verifyHash(publicClient, parsed.address, signature)

(***************************************************************************)
(* getVerificationErrorMessage, evaluated when the clock reads `t`.        *)
(***************************************************************************)
getVerificationErrorMessage(parsedMessage, expectedDomain, expectedNonce, t) ==
    IF ~Has(parsedMessage, "domain") \/ parsedMessage.domain # expectedDomain
    THEN ErrDomain(expectedDomain,
                   IF Has(parsedMessage, "domain") THEN parsedMessage.domain
                   ELSE "undefined")
    ELSE IF ~Has(parsedMessage, "nonce") \/ parsedMessage.nonce # expectedNonce
    THEN ErrNonce
    ELSE IF Has(parsedMessage, "expirationTime") /\ parsedMessage.expirationTime < t
    THEN ErrExpired
    ELSE IF Has(parsedMessage, "notBefore") /\ parsedMessage.notBefore > t
    THEN ErrNotYetValid
    ELSE IF ~Has(parsedMessage, "address")
    THEN ErrNoAddress
    ELSE IF ~Has(parsedMessage, "chainId") \/ parsedMessage.chainId = 0
    THEN ErrNoChainId
    ELSE ErrSignature

(***************************************************************************)
(* Writes to the session record.                                           *)
(***************************************************************************)
\* Assigning a possibly-undefined property: undefined is not sealed in the cookie.
Assign(s, k, o) == IF Has(o, k) THEN SetField(s, k, o[k]) ELSE DelField(s, k)

\* Mutants of StoreNonce: a pending nonce is kept; the login flag is kept.
StoreNonce_KeepsPending(s, nonce) ==
    SetField(IF Has(s, "nonce") THEN s ELSE SetField(s, "nonce", nonce),
             "isLoggedIn", FALSE)

StoreNonce_KeepsLogin(s, nonce) == SetField(s, "nonce", nonce)

\* nonce route: session.nonce = nonce; session.isLoggedIn = false
StoreNonce(s, nonce) == SetField(SetField(s, "nonce", nonce), "isLoggedIn", FALSE)

\* Mutant of Promote: the nonce is not cleared.
Promote_KeepsNonce(s, parsedMessage, signedInAt) ==
    LET s1 == Assign(s, "address", parsedMessage)
        s2 == Assign(s1, "chainId", parsedMessage)
        s3 == SetField(s2, "isLoggedIn", TRUE)
    IN SetField(s3, "signedInAt", signedInAt)

\* verify route, step 6: promote the session and clear the nonce
Promote(s, parsedMessage, signedInAt) ==
    LET s1 == Assign(s, "address", parsedMessage)
        s2 == Assign(s1, "chainId", parsedMessage)
        s3 == SetField(s2, "isLoggedIn", TRUE)
        s4 == SetField(s3, "signedInAt", signedInAt)
    IN DelField(s4, "nonce")

\* Mutant of Destroy: only the identity is removed.
Destroy_IdentityOnly(s) == Pick(s, {"nonce", "isLoggedIn"})

\* Mutant of Destroy: only the login flag is reset.
Destroy_FlagOnly(s) == SetField(s, "isLoggedIn", FALSE)

\* session.destroy(): every property removed, the cookie expired at once
Destroy(s) == EmptyObj

\* Mutant of SessionView: signedInAt is left out of the answer.
SessionView_NoSignedInAt(s) ==
    IF Has(s, "isLoggedIn") /\ s.isLoggedIn /\ Has(s, "address")
    THEN [isLoggedIn |-> TRUE] @@ Pick(s, {"address", "chainId"})
    ELSE defaultSession

\* Mutant of SessionView: a session that is not logged in is answered with
\* the challenge it holds.
SessionView_WithNonce(s) ==
    IF Has(s, "isLoggedIn") /\ s.isLoggedIn /\ Has(s, "address")
    THEN [isLoggedIn |-> TRUE] @@ Pick(s, {"address", "chainId", "signedInAt"})
    ELSE defaultSession @@ Pick(s, {"nonce"})

\* What GET /api/siwe/session answers for a loaded session
SessionView(s) ==
    IF Has(s, "isLoggedIn") /\ s.isLoggedIn /\ Has(s, "address")
    THEN [isLoggedIn |-> TRUE] @@ Pick(s, {"address", "chainId", "signedInAt"})
    ELSE defaultSession

Response(op, status, body) == [op |-> op, status |-> status, body |-> body]
Error(text) == [ok |-> FALSE, error |-> text]

(***************************************************************************)
(* utils/siwe.ts: the session options, computed once when the module is    *)
(* loaded.  A string is the sequence of its characters.                    *)
(***************************************************************************)
MinSecretLength == 32
MaxSecretLength == 33

\* A secret of n characters.
Secret(n) == [i \in 1..n |-> "x"]
Secrets == {Secret(n) : n \in 0..MaxSecretLength}
NodeEnvs == {"production", "development", "test"}

\* process.env: each of the two variables is set or not.
Envs ==
    {a @@ b : a \in Optional("NODE_ENV", NodeEnvs),
              b \in Optional("IRON_SESSION_SECRET", Secrets)}

\* A development machine: no secret set.
Development == [NODE_ENV |-> "development"]

DevFallback ==
    <<"c","o","m","p","l","e","x","_","p","a","s","s","w","o","r","d","_",
      "a","t","_","l","e","a","s","t","_","3","2","_",
      "c","h","a","r","a","c","t","e","r","s","_","l","o","n","g","_",
      "f","o","r","_","d","e","v">>

\* The texts of the two errors; the command each one quotes is a piece apart.
ErrSecretTooShort == <<"IRON_SESSION_SECRET must be at least 32 characters long. ",
                       "Generate a secure secret: ", "openssl rand -base64 32">>
ErrSecretRequired == <<"IRON_SESSION_SECRET environment variable is required in production. ",
                       "Generate a secure 32+ character secret: ", "openssl rand -base64 32">>

\* What a call returns or throws.
Returns(v) == [ok |-> TRUE, value |-> v]
Throws(text) == [ok |-> FALSE, error |-> text]

\* Mutant of getSessionPassword: a secret that is set is returned as it is.
getSessionPassword_Unchecked(e) ==
    IF Has(e, "IRON_SESSION_SECRET") /\ e.IRON_SESSION_SECRET # <<>>
    THEN Returns(e.IRON_SESSION_SECRET)
    ELSE IF Has(e, "NODE_ENV") /\ e.NODE_ENV = "production"
    THEN Throws(ErrSecretRequired)
    ELSE Returns(DevFallback)

\* getSessionPassword(), reading process.env = e; `if (secret)` is false for
\* a variable that is not set and for the empty string.
getSessionPassword(e) ==
    IF Has(e, "IRON_SESSION_SECRET") /\ e.IRON_SESSION_SECRET # <<>>
    THEN IF Len(e.IRON_SESSION_SECRET) < MinSecretLength
         THEN Throws(ErrSecretTooShort)
         ELSE Returns(e.IRON_SESSION_SECRET)
    ELSE IF Has(e, "NODE_ENV") /\ e.NODE_ENV = "production"
    THEN Throws(ErrSecretRequired)
    ELSE Returns(DevFallback)

\* The module before it is loaded.
NotLoaded == [loaded |-> FALSE]

\* Loading utils/siwe.ts evaluates `export const sessionOptions = {...}`: the
\* options, or the error that getSessionPassword threw.
Load(e) ==
    LET password == getSessionPassword(e) IN
    IF password.ok
    THEN [loaded |-> TRUE, password |-> password.value, cookieName |-> "siwe-session",
          secure |-> Has(e, "NODE_ENV") /\ e.NODE_ENV = "production"]
    ELSE [loaded |-> FALSE, error |-> password.error]

(***************************************************************************)
(* useSiwe at rest.  A null field of SiweState is a property that is not   *)
(* defined.                                                                *)
(***************************************************************************)
\* useState<SiweState>({ ..., isSignedIn: false, isLoading: true, ... })
InitialSiweState == [isSignedIn |-> FALSE, isLoading |-> TRUE]

Idle == [pc |-> "idle"]
NoSignOuts == [sent |-> 0, answered |-> 0]
NoEvent == [fired |-> {}, serial |-> TRUE, connectedOnce |-> FALSE]

\* The verify requests that are followed step by step; none is under way.
Calls == {"first", "second"}
NoCalls == [i \in Calls |-> [pc |-> "none"]]

(***************************************************************************)
(* Initial state: no cookie, nothing requested yet, no page open.          *)
(***************************************************************************)
Init ==
    /\ session = EmptyObj
    /\ now = 0
    /\ issued = 0
    /\ req = [op |-> "none"]
    /\ resp = Response("none", 0, EmptyObj)
    /\ calls = NoCalls
    /\ env = Development
    /\ sessionOptions = Load(env)
    /\ client = InitialSiweState
    /\ wallet = [isConnected |-> FALSE]
    /\ hasSeenWalletConnected = FALSE
    /\ signInCall = Idle
    /\ checkCall = Idle
    /\ signOuts = NoSignOuts
    /\ ev = NoEvent

\* Time passes between requests.
Tick ==
    /\ now < MaxTime
    /\ now' = now + 1
    /\ UNCHANGED <<session, issued, req, resp, calls>>
    /\ UNCHANGED <<clientVars, hostVars>>

\* GET /api/siwe/nonce
NonceGET ==
    /\ issued < MaxNonces
    /\ LET nonce == issued + 1 IN
        /\ issued' = issued + 1
        /\ session' = StoreNonce(session, nonce)
        /\ req' = [op |-> "nonce"]
        /\ resp' = Response("nonce", 200, [nonce |-> nonce])
    /\ UNCHANGED <<now, calls>>
    /\ UNCHANGED <<clientVars, hostVars>>

\* GET /api/siwe/session
SessionGET ==
    /\ req' = [op |-> "session"]
    /\ resp' = Response("session", 200, SessionView(session))
    /\ UNCHANGED <<session, now, issued, calls>>
    /\ UNCHANGED <<clientVars, hostVars>>

\* GET /api/siwe/session when getIronSession throws: the catch answers the
\* default shape.
SessionGET_catch ==
    /\ req' = [op |-> "session"]
    /\ resp' = Response("session", 200, defaultSession)
    /\ UNCHANGED <<session, now, issued, calls>>
    /\ UNCHANGED <<clientVars, hostVars>>

\* DELETE /api/siwe/session
SessionDELETE ==
    /\ session' = Destroy(session)
    /\ req' = [op |-> "destroy"]
    /\ resp' = Response("destroy", 200, [ok |-> TRUE])
    /\ UNCHANGED <<now, issued, calls>>
    /\ UNCHANGED <<clientVars, hostVars>>

(***************************************************************************)
(* POST /api/siwe/verify.  `json` is false when the request body is not    *)
(* JSON (request.json() throws).  The handler's clock reads (the time      *)
(* verifySiweMessage validates at, the time getVerificationErrorMessage    *)
(* compares with, and signedInAt) are taken at the same instant `t`.       *)
(***************************************************************************)
\* Mutant of Reject: a failed attempt consumes the pending nonce.
Reject_ClearsNonce(s, status, text) ==
    [session |-> DelField(s, "nonce"), resp |-> Response("verify", status, Error(text))]

\* A failure return: the response only; the loaded session is not saved.
Reject(s, status, text) ==
    [session |-> s, resp |-> Response("verify", status, Error(text))]

VerifyOutcome(s, body, host, t) ==
    IF ~Has(body, "message") THEN Reject(s, 400, ErrMissingMessage)
    ELSE IF ~Has(body, "signature") THEN Reject(s, 400, ErrMissingSignature)
    ELSE IF ~Has(s, "nonce") THEN Reject(s, 400, ErrNoNonce)
    ELSE IF host = "" THEN Reject(s, 500, ErrNoHost)
    ELSE
        LET storedNonce == s.nonce
            parsedMessage == parseSiweMessage(body.message)
            publicClient == getPublicClientForChain(Opt(parsedMessage, "chainId"))
            isValid == verifySiweMessage(publicClient, body.message, body.signature,
                                         host, storedNonce, t)
        IN  IF ~isValid
            THEN Reject(s, 400,
                        getVerificationErrorMessage(parsedMessage, host, storedNonce, t))
            ELSE [session |-> Promote(s, parsedMessage, t),
                  resp |-> Response("verify", 200,
                      [ok |-> TRUE, signedInAt |-> t]
                      @@ Pick(parsedMessage, {"address", "chainId"}))]

VerifyRequests ==
    [op : {"verify"}, json : {TRUE}, body : Bodies, host : {ServerHost}]
    \cup [op : {"verify"}, json : {TRUE}, body : HostlessBodies, host : {""}]
    \cup [op : {"verify"}, json : {FALSE}, body : {EmptyObj}, host : {ServerHost}]

VerifyPOST ==
    \E r \in VerifyRequests :
        /\ req' = r
        /\ IF ~r.json
           THEN LET out == Reject(session, 500, ErrUnexpected) IN
                /\ session' = out.session
                /\ resp' = out.resp
           ELSE LET out == VerifyOutcome(session, r.body, r.host, now) IN
                /\ session' = out.session
                /\ resp' = out.resp
        /\ UNCHANGED <<now, issued, calls>>
        /\ UNCHANGED <<clientVars, hostVars>>

Next ==
    \/ Tick
    \/ NonceGET
    \/ SessionGET
    \/ SessionDELETE
    \/ VerifyPOST

Spec == Init /\ [][Next]_vars

(***************************************************************************)
(* Vocabulary of the properties.                                           *)
(***************************************************************************)
LoggedIn(s) == Has(s, "isLoggedIn") /\ s.isLoggedIn

\* The step handles a request on route `op` (and is not the clock ticking).
Handled(op) == req'.op = op /\ <<req', resp', session'>> # <<req, resp, session>>

\* A verify request whose body has both fields.
WellShaped(r) == r.op = "verify" /\ r.json /\ Has(r.body, "message") /\ Has(r.body, "signature")

MsgHas(r, part, k) == Has(r.body.message[part], k)
MsgDomainIs(r, d) == MsgHas(r, "prefix", "domain") /\ r.body.message.prefix.domain = d
MsgNonceIs(r, n) == MsgHas(r, "suffix", "nonce") /\ r.body.message.suffix.nonce = n
MsgExpiredAt(r, t) ==
    MsgHas(r, "suffix", "expirationTime") /\ t >= r.body.message.suffix.expirationTime
MsgEarlyAt(r, t) ==
    MsgHas(r, "suffix", "notBefore") /\ t < r.body.message.suffix.notBefore
MsgSignedByClaimedAddress(r) ==
    MsgHas(r, "prefix", "address")
    /\ Signer(r.body.signature) = r.body.message.prefix.address

\* Request r, handled on session s at time t, passes every check of verify.
ChecksPass(r, s, t) ==
    /\ WellShaped(r)
    /\ Has(s, "nonce") /\ MsgNonceIs(r, s.nonce)
    /\ r.host # "" /\ MsgDomainIs(r, r.host)
    /\ ~MsgExpiredAt(r, t)
    /\ ~MsgEarlyAt(r, t)
    /\ MsgSignedByClaimedAddress(r)

Failed(rsp) == Has(rsp.body, "ok") /\ ~rsp.body.ok
FailedWith(rsp, text) == rsp.op = "verify" /\ rsp.body = Error(text)

(***************************************************************************)
(* C1.  Nonce is single-use.                                               *)
(***************************************************************************)
\* C1 as stated: after a verify call has succeeded, a second verify call with
\* the identical message and signature fails with the nonce-mismatch error.
C1_ReplayFailsWithNonceMismatch ==
    [][(resp.op = "verify" /\ resp.status = 200 /\ req' = req /\ resp' # resp)
        => FailedWith(resp', ErrNonce)]_vars

\* C1 as amended: after a verify call has succeeded, a second verify call with
\* the identical message and signature fails with status 400 and the
\* no-nonce-in-session error, and leaves the promoted session as it is.
C1_ReplayFailsWithNoNonce ==
    [][(resp.op = "verify" /\ resp.status = 200 /\ req' = req /\ resp' # resp)
        => /\ FailedWith(resp', ErrNoNonce)
           /\ resp'.status = 400
           /\ session' = session]_vars

\* A replay has been answered: the session is the promoted one and the
\* rejected request carries a message and signature that would promote it.
C1_Witness ==
    /\ LoggedIn(session)
    /\ WellShaped(req)
    /\ FailedWith(resp, ErrNoNonce)
    /\ MsgDomainIs(req, ServerHost)
    /\ MsgHas(req, "suffix", "nonce")
    /\ MsgSignedByClaimedAddress(req)
    /\ req.body.message.prefix.address = session.address

(***************************************************************************)
(* C2.  Identity fields and the login flag.                                *)
(***************************************************************************)
\* C2 as stated: in every reachable session record, address, chainId and
\* signedInAt are set if and only if isLoggedIn is true.
C2_IdentityIffLoggedIn ==
    /\ Has(session, "address") <=> LoggedIn(session)
    /\ Has(session, "chainId") <=> LoggedIn(session)
    /\ Has(session, "signedInAt") <=> LoggedIn(session)

(***************************************************************************)
(* C3.  Only a verify call that passes every check logs the session in.    *)
(***************************************************************************)
ClientErrors ==
    {ErrMissingMessage, ErrMissingSignature, ErrNoNonce, ErrNonce, ErrExpired,
     ErrNotYetValid, ErrNoAddress, ErrNoChainId, ErrSignature}
    \cup {ErrDomain(ServerHost, d) : d \in Domains \cup {"undefined"}}

\* C3: a step that writes a logged-in session is a verify call that passed
\* every check (nonce, domain, expiry, notBefore, signature) on the session it
\* loaded; any other write leaves isLoggedIn false; and a verify call ending in
\* a validation, protocol or signature error answers ok:false with status 400
\* and does not set isLoggedIn.
C3_OnlyVerifiedLogin ==
    [][/\ (session' # session /\ LoggedIn(session'))
            => /\ req'.op = "verify" /\ resp'.op = "verify"
               /\ resp'.status = 200 /\ resp'.body.ok
               /\ ChecksPass(req', session, now)
       /\ (Handled("verify") /\ Failed(resp'))
            => /\ resp'.body.error \in ClientErrors => resp'.status = 400
               /\ resp'.status \in {400, 500}
               /\ LoggedIn(session') => LoggedIn(session)
               /\ session' = session]_vars

\* A verify call has just promoted the session.
C3_Witness ==
    /\ req.op = "verify" /\ resp.status = 200
    /\ LoggedIn(session)
    /\ session.address = req.body.message.prefix.address

(***************************************************************************)
(* C4.  A new nonce invalidates the previous one.                          *)
(***************************************************************************)
\* C4: the pending nonce is always the one issued last, and a verify call
\* succeeds only when its message carries that nonce; a message carrying an
\* earlier nonce is rejected whatever its signature.
C4_OnlyLatestNonceVerifies ==
    [][/\ Has(session', "nonce") => session'.nonce = issued'
       /\ (Handled("verify") /\ resp'.status = 200)
            => MsgNonceIs(req', issued)
       /\ (Handled("verify") /\ WellShaped(req') /\ issued >= 2
            /\ \E n1 \in 1..(issued - 1) : MsgNonceIs(req', n1))
            => Failed(resp') /\ session' = session]_vars

\* Two nonces were issued, the second is pending, and a verify call whose
\* message carries the first (right domain, valid signature) was rejected.
C4_Witness ==
    /\ issued = 2
    /\ Has(session, "nonce") /\ session.nonce = 2
    /\ WellShaped(req)
    /\ MsgNonceIs(req, 1)
    /\ MsgDomainIs(req, ServerHost)
    /\ MsgSignedByClaimedAddress(req)
    /\ FailedWith(resp, ErrNonce)

(***************************************************************************)
(* C5.  A failed verify call leaves the session as it was.                 *)
(***************************************************************************)
\* C5: a verify call that fails at any step leaves the stored session exactly
\* as it was, so that when a nonce is pending a verify call with a valid
\* signature over that nonce still succeeds.
\* A request from account 0xA carrying nonce n: the server's domain, no time
\* limits, signed with the account's key.
Retry(n) ==
    LET acct == [address |-> "0xA", chainId |-> 1] IN
    [op |-> "verify", json |-> TRUE, host |-> ServerHost,
     body |-> [message |-> [prefix |-> Prefix(ServerHost, acct),
                            suffix |-> Suffix(acct, n, EmptyObj, EmptyObj)],
               signature |-> "sigA"]]

C5_FailedVerifyKeepsSession ==
    [][(Handled("verify") /\ Failed(resp'))
        => /\ session' = session
           /\ Has(session, "nonce")
                => LET r == Retry(session.nonce) IN
                    /\ Has(session', "nonce")
                    /\ ChecksPass(r, session', now')
                    /\ VerifyOutcome(session', r.body, r.host, now').resp.status = 200]_vars

\* A verify call with a bad signature was rejected and the nonce is pending.
C5_Witness ==
    /\ FailedWith(resp, ErrSignature)
    /\ Has(session, "nonce")
    /\ MsgNonceIs(req, session.nonce)

(***************************************************************************)
(* C6.  Domain binding.                                                    *)
(***************************************************************************)
DomainDiffers(r) == WellShaped(r) /\ ~MsgDomainIs(r, r.host)

\* C6: a verify call whose message domain differs from the request's host is
\* rejected and the session is not promoted, whatever the signature and the
\* expiry.
C6_DomainMismatchRejected ==
    [][(Handled("verify") /\ DomainDiffers(req'))
        => Failed(resp') /\ session' = session]_vars

\* Rejected for the domain alone: nonce, times and signature are all right.
C6_Witness ==
    /\ WellShaped(req)
    /\ MsgDomainIs(req, "evil.example") /\ req.host = ServerHost
    /\ Has(session, "nonce") /\ MsgNonceIs(req, session.nonce)
    /\ ~MsgHas(req, "suffix", "expirationTime")
    /\ ~MsgHas(req, "suffix", "notBefore")
    /\ MsgSignedByClaimedAddress(req)
    /\ FailedWith(resp, ErrDomain(ServerHost, "evil.example"))

(***************************************************************************)
(* C7.  Expiry and notBefore.                                              *)
(***************************************************************************)
\* The request gets as far as the time checks: right shape, a pending nonce,
\* a host, and the message's domain and nonce match.
ReachesTimeChecks(r, s) ==
    /\ WellShaped(r)
    /\ Has(s, "nonce") /\ MsgNonceIs(r, s.nonce)
    /\ r.host # "" /\ MsgDomainIs(r, r.host)

\* C7 as stated: a message with now >= expirationTime (equality included) is
\* rejected with the expired error whatever the signature, and a message with
\* now < notBefore is rejected with the not-yet-valid error.
C7_TimeErrors ==
    [][(Handled("verify") /\ ReachesTimeChecks(req', session))
        => /\ MsgExpiredAt(req', now) => FailedWith(resp', ErrExpired)
           /\ (MsgEarlyAt(req', now) /\ ~MsgExpiredAt(req', now))
                => FailedWith(resp', ErrNotYetValid)]_vars

(***************************************************************************)
(* C8.  Round trip.                                                        *)
(***************************************************************************)
\* C8: a verify call that passes every check answers ok:true with the
\* message's address and chainId, and a check-session call right after a
\* successful verify answers isLoggedIn true with the address, chainId and
\* signedInAt that verify returned.
C8_RoundTrip ==
    [][/\ (Handled("verify") /\ ChecksPass(req', session, now))
            => /\ resp'.status = 200
               /\ resp'.body = [ok |-> TRUE,
                                address |-> req'.body.message.prefix.address,
                                chainId |-> req'.body.message.suffix.chainId,
                                signedInAt |-> now]
       /\ (resp.op = "verify" /\ resp.status = 200 /\ Handled("session"))
            => resp'.body = [isLoggedIn |-> TRUE,
                             address |-> resp.body.address,
                             chainId |-> resp.body.chainId,
                             signedInAt |-> resp.body.signedInAt]]_vars

\* Check-session has answered for account 0xB, logged in on chain 5 at time 1.
C8_Witness ==
    /\ req.op = "session"
    /\ resp.body = [isLoggedIn |-> TRUE, address |-> "0xB", chainId |-> 5, signedInAt |-> 1]
    /\ LoggedIn(session)

(***************************************************************************)
(* C9.  Destroy.                                                           *)
(***************************************************************************)
\* C9: destroy empties the session at once, whatever it held; right after it
\* check-session answers the default shape and a verify call fails with the
\* no-nonce error.
C9_Destroy ==
    [][/\ Handled("destroy")
            => session' = EmptyObj /\ resp'.body = [ok |-> TRUE]
       /\ (req.op = "destroy" /\ Handled("session"))
            => resp'.body = defaultSession
       /\ (req.op = "destroy" /\ Handled("verify") /\ WellShaped(req'))
            => /\ FailedWith(resp', ErrNoNonce)
               /\ resp'.status = 400
               /\ session' = session]_vars

\* After a nonce was issued and the session destroyed, a verify call carrying
\* an issued nonce, the right domain and a valid signature got the no-nonce error.
C9_Witness ==
    /\ session = EmptyObj
    /\ issued >= 1
    /\ WellShaped(req)
    /\ MsgNonceIs(req, issued)
    /\ MsgDomainIs(req, ServerHost)
    /\ MsgSignedByClaimedAddress(req)
    /\ FailedWith(resp, ErrNoNonce)

(***************************************************************************)
(* C10.  requestNonce.                                                     *)
(***************************************************************************)
\* C10: requestNonce stores a new nonce over any pending one, sets isLoggedIn
\* to false and returns the stored value; check-session answers the default
\* shape whenever the session is not logged in, so after requestNonce it does
\* so until a verify call succeeds.
C10_RequestNonce ==
    [][/\ Handled("nonce")
            => /\ resp'.status = 200
               /\ Has(session', "nonce") /\ session'.nonce = resp'.body.nonce
               /\ Has(session, "nonce") => session'.nonce # session.nonce
               /\ Has(session', "isLoggedIn") /\ ~session'.isLoggedIn
       /\ (req.op = "nonce" /\ Handled("session"))
            => resp'.body = defaultSession
       /\ (Handled("session") /\ resp'.body # defaultSession)
            => LoggedIn(session)]_vars

\* Check-session has answered the default shape for a session that was logged
\* in and then asked for a new nonce.
C10_Witness ==
    /\ req.op = "session"
    /\ resp.body = defaultSession
    /\ Has(session, "nonce")
    /\ Has(session, "address")

(***************************************************************************)
(* C24.  The error a rejected verification reports.                        *)
(***************************************************************************)
\* The first check that request r fails, in the order domain, nonce, expiry,
\* notBefore, required fields, signature, when handled on session s at time t.
FirstFailedCheck(r, s, t) ==
    IF ~MsgDomainIs(r, r.host)
    THEN ErrDomain(r.host, IF MsgHas(r, "prefix", "domain")
                           THEN r.body.message.prefix.domain ELSE "undefined")
    ELSE IF ~MsgNonceIs(r, s.nonce) THEN ErrNonce
    ELSE IF MsgExpiredAt(r, t) THEN ErrExpired
    ELSE IF MsgEarlyAt(r, t) THEN ErrNotYetValid
    ELSE IF ~MsgHas(r, "prefix", "address") THEN ErrNoAddress
    ELSE IF ~MsgHas(r, "suffix", "chainId") THEN ErrNoChainId
    ELSE ErrSignature

\* The request reaches the verification step: right shape, a pending nonce and
\* a Host header.
ReachesVerification(r, s) == WellShaped(r) /\ Has(s, "nonce") /\ r.host # ""

\* C24 as stated: every verify call that the verification step rejects reports
\* the first check that failed, in the order domain, nonce, expiry, notBefore,
\* missing required fields, signature; a message whose only failing check is
\* the expiry, handled when now equals expirationTime, reports the expired
\* error, and a message with no address and a foreign domain reports the domain
\* error.
C24_FirstFailedCheckReported ==
    [][(Handled("verify") /\ ReachesVerification(req', session) /\ Failed(resp'))
        => resp'.body = Error(FirstFailedCheck(req', session, now))]_vars

(***************************************************************************)
(* C25.  The order of the checks of verify.                                *)
(***************************************************************************)
\* No part of the message text matches the EIP-4361 grammar.
Unparseable(r) == r.body.message = [prefix |-> EmptyObj, suffix |-> EmptyObj]

\* C25 as stated: a request without a message or a signature gets the
\* validation error of the missing field even when the session has no pending
\* nonce; a well-shaped request on a session without a pending nonce gets the
\* no-nonce error even when its message is unparseable; and an unparseable
\* message is rejected as such, before any domain, nonce, time or signature
\* check has looked at it.
C25_ChecksInOrder ==
    [][Handled("verify") /\ req'.json
        => /\ ~Has(req'.body, "message") => FailedWith(resp', ErrMissingMessage)
           /\ (Has(req'.body, "message") /\ ~Has(req'.body, "signature"))
                => FailedWith(resp', ErrMissingSignature)
           /\ (WellShaped(req') /\ ~Has(session, "nonce"))
                => FailedWith(resp', ErrNoNonce)
           /\ (WellShaped(req') /\ Has(session, "nonce") /\ Unparseable(req'))
                => FailedWith(resp', ErrInvalidFormat)]_vars

(***************************************************************************)
(* The client: the useSiwe hook (src/README.md) running in a browser page  *)
(* against the three routes.  The browser holds the one session cookie; a  *)
(* request that the server handles reads and rewrites it in one step.  A   *)
(* request that fails does so before the handler has run.                  *)
(***************************************************************************)
\* useAccount(): the address may be known while isConnected is still false
\* (the wallet is reconnecting after a page load).
WalletAddresses == {"0xa", "0xB"}
Wallets ==
    {[isConnected |-> FALSE]} \cup [isConnected : BOOLEAN, address : WalletAddresses]

toLowerCase(a) == IF a = "0xA" THEN "0xa" ELSE IF a = "0xB" THEN "0xb" ELSE a

\* viem getAddress: the checksummed form of an address
getAddress(a) == IF a = "0xa" THEN "0xA" ELSE IF a = "0xb" THEN "0xB" ELSE a

AccountOf(a) == CHOOSE acct \in Accounts : acct.address = getAddress(a)

\* signMessageAsync: the connected account signs the text
signMessage(a) == IF getAddress(a) = "0xA" THEN "sigA" ELSE "sigB"

\* siweConfig.messageExpirationMinutes; the clock counts minutes
messageExpirationMinutes == 10

\* window.location.origin of the page
Origin == "https://app.example"

\* Mutant of createSiweMessage: the message expires when it is issued.
createSiweMessage_NoWindow(address, nonce, t) ==
    LET acct == AccountOf(address) IN
    [prefix |-> Prefix(ServerHost, acct),
     suffix |-> Suffix(acct, nonce, [expirationTime |-> t], EmptyObj)
                @@ [uri |-> Origin, issuedAt |-> t]]

\* createSiweMessage({ address, chainId, domain: window.location.host, nonce,
\*   uri: window.location.origin, issuedAt: now,
\*   expirationTime: now + messageExpirationMinutes, ... })
createSiweMessage(address, nonce, t) ==
    LET acct == AccountOf(address) IN
    [prefix |-> Prefix(ServerHost, acct),
     suffix |-> Suffix(acct, nonce,
                       [expirationTime |-> t + messageExpirationMinutes], EmptyObj)
                @@ [uri |-> Origin, issuedAt |-> t]]

ErrNotConnected == <<"Please connect your wallet first">>
ErrCheckSession == <<"Failed to check session status">>
ErrFetchNonce == <<"Failed to fetch nonce">>
ErrRejected == <<"Signature request was rejected">>
ErrSign == <<"Failed to sign message">>
ErrVerification == <<"Verification failed">>
ErrSignOut == <<"Failed to sign out">>
ErrFallback == <<"An unexpected error occurred">>
ErrFetch == <<"Failed to fetch">>          \* the TypeError fetch() rejects with

\* Thrown values: an Error carries a message, anything else does not.
Thrown(text) == [message |-> text]
getErrorMessage(error, fallback) ==
    IF Has(error, "message") THEN error.message ELSE fallback

\* `value || null` for the fields of a response
Falsy(k, v) == IF k = "address" THEN v = "" ELSE v = 0
OrNull(c, k, o) ==
    IF Has(o, k) /\ ~Falsy(k, o[k]) THEN SetField(c, k, o[k]) ELSE DelField(c, k)

(***************************************************************************)
(* The setState calls of the hook, as functions of the previous state.     *)
(***************************************************************************)
\* Mutant of NotConnected: the wallet check also raises isLoading.
NotConnected_Loading(c) ==
    SetField(SetField(c, "isLoading", TRUE), "error", ErrNotConnected)

\* signIn, wallet check: { ...prev, error: "Please connect your wallet first" }
NotConnected(c) == SetField(c, "error", ErrNotConnected)

\* signIn and signOut, first line: { ...prev, isLoading: true, error: null }
SetLoading(c) == DelField(SetField(c, "isLoading", TRUE), "error")

\* signIn: { ...prev, siweMessage: message }
ShowMessage(c, message) == SetField(c, "siweMessage", message)

\* Mutant of SetError: a failure also drops the signed-in flag.
SetError_SignsOut(c, text) ==
    SetField(SetField(SetField(c, "isSignedIn", FALSE), "isLoading", FALSE),
             "error", text)

\* Mutant of SetError: a failure sets the error and leaves isLoading as it is.
SetError_StaysLoading(c, text) == SetField(c, "error", text)

\* the failure branches: { ...prev, isLoading: false, error: errorMessage }
SetError(c, text) == SetField(SetField(c, "isLoading", FALSE), "error", text)

\* signIn, success: identity and time from the verify response
SignedIn(c, verifyData) ==
    LET c1 == Assign(c, "address", verifyData)
        c2 == Assign(c1, "chainId", verifyData)
        c3 == SetField(c2, "isSignedIn", TRUE)
        c4 == DelField(SetField(c3, "isLoading", FALSE), "error")
    IN Assign(c4, "signedInAt", verifyData)

\* signOut, success: setState({ address: null, ..., isSignedIn: false, ... })
SignedOut == [isSignedIn |-> FALSE, isLoading |-> FALSE]

\* Mutant of Hydrate: only the flags are taken from the answer.
Hydrate_FlagsOnly(c, data) ==
    LET c3 == SetField(c, "isSignedIn", Has(data, "isLoggedIn") /\ data.isLoggedIn)
    IN DelField(SetField(c3, "isLoading", FALSE), "error")

\* checkSession, success
Hydrate(c, data) ==
    LET c1 == OrNull(c, "address", data)
        c2 == OrNull(c1, "chainId", data)
        c3 == SetField(c2, "isSignedIn", Has(data, "isLoggedIn") /\ data.isLoggedIn)
        c4 == DelField(SetField(c3, "isLoading", FALSE), "error")
    IN OrNull(c4, "signedInAt", data)

\* checkSession, catch
CheckFailed(c) ==
    SetField(SetField(SetField(c, "isSignedIn", FALSE), "isLoading", FALSE),
             "error", ErrCheckSession)

(***************************************************************************)
(* The auto-logout effect.  React runs it after a render in which one of   *)
(* its dependencies changed; the effect that records a connected wallet    *)
(* is declared before it and runs first.                                   *)
(***************************************************************************)
Deps(c, w) == <<w, c.isSignedIn, Pick(c, {"address"})>>

\* Mutant of Watch: the addresses are compared as they are written.
Watch_CaseSensitive(c, w, seen) ==
    (IF /\ c.isSignedIn /\ Has(w, "address") /\ Has(c, "address")
        /\ w.address # c.address
     THEN {"mismatch"} ELSE {})
    \cup
    (IF c.isSignedIn /\ ~w.isConnected /\ seen THEN {"disconnect"} ELSE {})

\* Mutant of Watch: the disconnect check does not ask whether the wallet
\* has been seen connected.
Watch_NoSeen(c, w, seen) ==
    (IF /\ c.isSignedIn /\ Has(w, "address") /\ Has(c, "address")
        /\ toLowerCase(w.address) # toLowerCase(c.address)
     THEN {"mismatch"} ELSE {})
    \cup
    (IF c.isSignedIn /\ ~w.isConnected THEN {"disconnect"} ELSE {})

\* Mutant of Watch: the disconnect check does not ask whether the client is
\* signed in.
Watch_AnyState(c, w, seen) ==
    (IF /\ c.isSignedIn /\ Has(w, "address") /\ Has(c, "address")
        /\ toLowerCase(w.address) # toLowerCase(c.address)
     THEN {"mismatch"} ELSE {})
    \cup
    (IF ~w.isConnected /\ seen THEN {"disconnect"} ELSE {})

\* The checks of the effect that call signOut(), given the state rendered.
Watch(c, w, seen) ==
    (IF /\ c.isSignedIn /\ Has(w, "address") /\ Has(c, "address")
        /\ toLowerCase(w.address) # toLowerCase(c.address)
     THEN {"mismatch"} ELSE {})
    \cup
    (IF c.isSignedIn /\ ~w.isConnected /\ seen THEN {"disconnect"} ELSE {})

InFlight == signInCall # Idle \/ checkCall # Idle \/ signOuts # NoSignOuts

\* One step of the page: the state `c` set by the step, the wallet `w`, the
\* calls in flight after it, then the effects.  `op` tells that the step is
\* the caller invoking signIn, signOut or checkSession.  `ev` records what
\* the effects did: the checks that called signOut() in this step, whether
\* every call so far began with no other call in flight, and whether the
\* wallet has been reported connected.  The caller and the wallet act only
\* while that leaves at most MaxSignOuts signOut calls in flight; a response
\* that arrives is never held back.
Commit(c, w, si, ck, so, op) ==
    LET seen == hasSeenWalletConnected \/ w.isConnected
        fired == IF Deps(c, w) # Deps(client, wallet) THEN Watch(c, w, seen) ELSE {}
        busy == si # Idle \/ ck # Idle \/ so # NoSignOuts
        overlap == \/ op /\ InFlight
                   \/ fired # {} /\ (busy \/ Cardinality(fired) > 1)
    IN  /\ (op \/ w # wallet)
            => so.sent + so.answered + Cardinality(fired) <= MaxSignOuts
        /\ client' = IF fired = {} THEN c ELSE SetLoading(c)
        /\ wallet' = w
        /\ hasSeenWalletConnected' = seen
        /\ signInCall' = si
        /\ checkCall' = ck
        /\ signOuts' = [so EXCEPT !.sent = @ + Cardinality(fired)]
        /\ ev' = [fired |-> fired,
                  serial |-> ev.serial /\ ~overlap,
                  connectedOnce |-> ev.connectedOnce \/ w.isConnected]

Server(s, i) ==
    session' = s /\ issued' = i /\ UNCHANGED <<now, req, resp, calls, hostVars>>

\* The sessions a page may be loaded with: no cookie, or a signed-in one.
InitSessions ==
    {EmptyObj} \cup
    {[isLoggedIn |-> TRUE, address |-> acct.address, chainId |-> acct.chainId,
      signedInAt |-> 1] : acct \in Accounts}

\* The page has mounted: initial state, the session check on its way.
InitClient ==
    /\ session \in InitSessions
    /\ now = 1
    /\ issued = 0
    /\ req = [op |-> "none"]
    /\ resp = Response("none", 0, EmptyObj)
    /\ calls = NoCalls
    /\ env = Development
    /\ sessionOptions = Load(env)
    /\ client = InitialSiweState
    /\ wallet \in Wallets
    /\ hasSeenWalletConnected = wallet.isConnected
    /\ signInCall = Idle
    /\ checkCall = [pc |-> "sent", onLoad |-> TRUE]
    /\ signOuts = NoSignOuts
    /\ ev = [NoEvent EXCEPT !.connectedOnce = wallet.isConnected]

\* useAccount reports another wallet state.
walletChanges ==
    /\ \E w \in Wallets \ {wallet} :
        Commit(client, w, signInCall, checkCall, signOuts, FALSE)
    /\ UNCHANGED serverVars

(************************** checkSession ***********************************)
checkSession_call ==
    /\ checkCall = Idle
    /\ Commit(client, wallet, signInCall, [pc |-> "sent", onLoad |-> FALSE], signOuts, TRUE)
    /\ UNCHANGED serverVars

\* Mutant of checkSession_served: the handler saves the session it loaded,
\* with the login flag made explicit.
checkSession_served_Saves ==
    /\ checkCall.pc = "sent"
    /\ checkCall' = [pc |-> "answered", onLoad |-> checkCall.onLoad,
                     data |-> SessionView(session)]
    /\ UNCHANGED <<client, wallet, hasSeenWalletConnected, signInCall, signOuts, ev>>
    /\ Server(SetField(session, "isLoggedIn", LoggedIn(session)), issued)

\* GET /api/siwe/session handles the request.
checkSession_served ==
    /\ checkCall.pc = "sent"
    /\ checkCall' = [pc |-> "answered", onLoad |-> checkCall.onLoad,
                     data |-> SessionView(session)]
    /\ UNCHANGED <<client, wallet, hasSeenWalletConnected, signInCall, signOuts, ev>>
    /\ UNCHANGED serverVars

checkSession_ok ==
    /\ checkCall.pc = "answered"
    /\ Commit(Hydrate(client, checkCall.data), wallet, signInCall, Idle, signOuts, FALSE)
    /\ UNCHANGED serverVars

checkSession_catch ==
    /\ checkCall.pc = "sent"
    /\ Commit(CheckFailed(client), wallet, signInCall, Idle, signOuts, FALSE)
    /\ UNCHANGED serverVars

(****************************** signIn *************************************)
\* One signIn call and one checkSession call are followed at a time; signOut
\* calls may overlap each other.
signIn_notConnected ==
    /\ signInCall = Idle
    /\ ~wallet.isConnected \/ ~Has(wallet, "address")
    /\ Commit(NotConnected(client), wallet, signInCall, checkCall, signOuts, FALSE)
    /\ UNCHANGED serverVars

signIn_call ==
    /\ signInCall = Idle
    /\ issued < MaxSignIns
    /\ wallet.isConnected /\ Has(wallet, "address")
    /\ Commit(SetLoading(client), wallet,
              [pc |-> "nonce", address |-> wallet.address], checkCall, signOuts, TRUE)
    /\ UNCHANGED serverVars

\* GET /api/siwe/nonce handles the request.
signIn_nonceServed ==
    /\ signInCall.pc = "nonce"
    /\ signInCall' = [pc |-> "nonceAnswered", address |-> signInCall.address,
                      nonce |-> issued + 1]
    /\ Server(StoreNonce(session, issued + 1), issued + 1)
    /\ UNCHANGED <<client, wallet, hasSeenWalletConnected, checkCall, signOuts, ev>>

\* Mutant of signIn_nonceFailed: the catch sets the error and asks again.
signIn_nonceFailed_Retries ==
    /\ signInCall.pc = "nonce"
    /\ Commit(SetError(client, getErrorMessage(Thrown(ErrFetchNonce), ErrFallback)),
              wallet, signInCall, checkCall, signOuts, FALSE)
    /\ UNCHANGED serverVars

\* The response is not ok: throw new Error("Failed to fetch nonce"), caught below.
signIn_nonceFailed ==
    /\ signInCall.pc = "nonce"
    /\ Commit(SetError(client, getErrorMessage(Thrown(ErrFetchNonce), ErrFallback)),
              wallet, Idle, checkCall, signOuts, FALSE)
    /\ UNCHANGED serverVars

\* The nonce arrives: the message is built, shown, and handed to the wallet.
signIn_message ==
    /\ signInCall.pc = "nonceAnswered"
    /\ LET message == createSiweMessage(signInCall.address, signInCall.nonce, now) IN
        Commit(ShowMessage(client, message), wallet,
               [pc |-> "sign", message |-> message], checkCall, signOuts, FALSE)
    /\ UNCHANGED serverVars

\* signMessageAsync resolves: the account now connected has signed.
signIn_signed ==
    /\ signInCall.pc = "sign"
    /\ Has(wallet, "address")
    /\ Commit(client, wallet,
              [pc |-> "verify", message |-> signInCall.message,
               signature |-> signMessage(wallet.address)],
              checkCall, signOuts, FALSE)
    /\ UNCHANGED serverVars

\* What signMessageAsync may throw: viem's UserRejectedRequestError (the user
\* refused in the wallet), another Error of the wallet or the transport, or a
\* value that is not an Error.  A message is the sequence of its words.
SignErrors ==
    {[isError |-> TRUE, userRejected |-> TRUE,
      message |-> <<"user", "rejected", "the", "request.">>],
     [isError |-> TRUE, userRejected |-> FALSE,
      message |-> <<"internal", "json-rpc", "error.">>],
     [isError |-> FALSE, userRejected |-> FALSE]}

\* signError instanceof Error && signError.message.toLowerCase().includes("rejected")
isRejection(signError) ==
    /\ signError.isError
    /\ \E i \in DOMAIN signError.message : signError.message[i] = "rejected"

\* Mutant of signErrorMessage: one message for every failure of the wallet.
signErrorMessage_Generic(signError) == ErrSign

\* errorMessage = isRejection ? "Signature request was rejected" : "Failed to sign message"
signErrorMessage(signError) == IF isRejection(signError) THEN ErrRejected ELSE ErrSign

\* signMessageAsync rejects: the user refused, or the wallet failed.
signIn_signFailed ==
    /\ signInCall.pc = "sign"
    /\ \E signError \in SignErrors :
        Commit(SetError(client, signErrorMessage(signError)),
               wallet, Idle, checkCall, signOuts, FALSE)
    /\ UNCHANGED serverVars

\* POST /api/siwe/verify handles the request.
signIn_verifyServed ==
    /\ signInCall.pc = "verify"
    /\ LET out == VerifyOutcome(session,
                                [message |-> signInCall.message,
                                 signature |-> signInCall.signature],
                                ServerHost, now)
       IN /\ signInCall' = [pc |-> "verifyAnswered", resp |-> out.resp]
          /\ Server(out.session, issued)
    /\ UNCHANGED <<client, wallet, hasSeenWalletConnected, checkCall, signOuts, ev>>

\* The verify response arrives.
signIn_verified ==
    /\ signInCall.pc = "verifyAnswered"
    /\ LET verifyData == signInCall.resp.body
           ok == signInCall.resp.status = 200 /\ Has(verifyData, "ok") /\ verifyData.ok
       IN Commit(IF ok THEN SignedIn(client, verifyData)
                 ELSE SetError(client, IF Has(verifyData, "error")
                                       THEN verifyData.error ELSE ErrVerification),
                 wallet, Idle, checkCall, signOuts, FALSE)
    /\ UNCHANGED serverVars

\* fetch() to the verify route rejects: the outer catch.
signIn_catch ==
    /\ signInCall.pc = "verify"
    /\ Commit(SetError(client, getErrorMessage(Thrown(ErrFetch), ErrFallback)),
              wallet, Idle, checkCall, signOuts, FALSE)
    /\ UNCHANGED serverVars

(****************************** signOut ************************************)
signOut_call ==
    /\ Commit(SetLoading(client), wallet, signInCall, checkCall,
              [signOuts EXCEPT !.sent = @ + 1], TRUE)
    /\ UNCHANGED serverVars

\* DELETE /api/siwe/session handles one of the requests.
signOut_served ==
    /\ signOuts.sent > 0
    /\ signOuts' = [sent |-> signOuts.sent - 1, answered |-> signOuts.answered + 1]
    /\ Server(Destroy(session), issued)
    /\ UNCHANGED <<client, wallet, hasSeenWalletConnected, signInCall, checkCall, ev>>

\* Mutant of signOut_ok: the handler also abandons the signIn in flight.
signOut_ok_Cancels ==
    /\ signOuts.answered > 0
    /\ Commit(SignedOut, wallet, Idle, checkCall,
              [signOuts EXCEPT !.answered = @ - 1], FALSE)
    /\ UNCHANGED serverVars

signOut_ok ==
    /\ signOuts.answered > 0
    /\ Commit(SignedOut, wallet, signInCall, checkCall,
              [signOuts EXCEPT !.answered = @ - 1], FALSE)
    /\ UNCHANGED serverVars

signOut_catch ==
    /\ signOuts.sent > 0
    /\ Commit(SetError(client, getErrorMessage(Thrown(ErrSignOut), ErrSignOut)),
              wallet, signInCall, checkCall,
              [signOuts EXCEPT !.sent = @ - 1], FALSE)
    /\ UNCHANGED serverVars

NextClient ==
    \/ walletChanges
    \/ checkSession_call
    \/ checkSession_served
    \/ checkSession_ok
    \/ checkSession_catch
    \/ signIn_notConnected
    \/ signIn_call
    \/ signIn_nonceServed
    \/ signIn_nonceFailed
    \/ signIn_message
    \/ signIn_signed
    \/ signIn_signFailed
    \/ signIn_verifyServed
    \/ signIn_verified
    \/ signIn_catch
    \/ signOut_call
    \/ signOut_served
    \/ signOut_ok
    \/ signOut_catch

SpecClient == InitClient /\ [][NextClient]_vars

(***************************************************************************)
(* The page left alone: the caller invokes nothing, so only the session    *)
(* check made on mount and the calls the effects make are running, while   *)
(* time passes.  A request in flight is eventually handled unless it       *)
(* fails, and the response to a handled request eventually arrives.        *)
(***************************************************************************)
NextWatch ==
    \/ Tick
    \/ walletChanges
    \/ checkSession_served
    \/ checkSession_ok
    \/ checkSession_catch
    \/ signOut_served
    \/ signOut_ok
    \/ signOut_catch

SpecWatch ==
    /\ InitClient
    /\ [][NextWatch]_vars
    /\ WF_vars(checkSession_served)
    /\ WF_vars(checkSession_ok)
    /\ WF_vars(signOut_served)
    /\ WF_vars(signOut_ok)

(***************************************************************************)
(* Claims about the client.                                                *)
(***************************************************************************)
connectedAddress(w) == Pick(w, {"address"})

\* The wallet's address and the address the client is signed in with differ,
\* letter case aside.
Mismatch(c, w) ==
    /\ c.isSignedIn /\ Has(c, "address") /\ Has(w, "address")
    /\ toLowerCase(w.address) # toLowerCase(c.address)

SignOutFailed(c) == Has(c, "error") /\ c.error = ErrSignOut

C12_DisconnectCheck ==
    "disconnect" \in ev.fired =>
        /\ client.isSignedIn
        /\ ~wallet.isConnected
        /\ ev.connectedOnce

\* The disconnect check has called signOut.
C12_Witness ==
    /\ "disconnect" \in ev.fired
    /\ signOuts.sent = 1
    /\ client.isLoading

\* What the client says about who is signed in.
Identity(c) == Pick(c, {"isSignedIn", "address", "chainId", "signedInAt"})

\* Steps of a signOut call, told by the count of calls in flight.
SignOutBegins == signOuts'.sent > signOuts.sent
SignOutServed == signOuts'.answered > signOuts.answered
SignOutConfirmed == signOuts'.answered < signOuts.answered
SignOutFails == signOuts'.sent < signOuts.sent /\ signOuts'.answered = signOuts.answered

\* C13: signOut resets the client state to the SignedOut defaults when, and
\* only when, the response confirming the destroy arrives: calling it and the
\* server handling it leave isSignedIn, address, chainId and signedInAt as
\* they were; when the destroy request fails these four keep their values,
\* isLoading is false and error is set.
C13_SignOut ==
    [][/\ SignOutConfirmed => client' = SignedOut
       /\ (SignOutBegins /\ checkCall' = checkCall /\ signInCall' = signInCall)
            => Identity(client') = Identity(client)
       /\ SignOutServed => client' = client
       /\ SignOutFails
            => /\ Identity(client') = Identity(client)
               /\ Has(client', "error") /\ client'.error # <<>>
               /\ ~client'.isLoading]_vars

\* A destroy request has failed under a signed-in client.
C13_Witness ==
    /\ SignOutFailed(client)
    /\ client.isSignedIn
    /\ Has(client, "address") /\ Has(client, "chainId") /\ Has(client, "signedInAt")
    /\ LoggedIn(session)

\* C14: a signIn call begins only when the wallet is connected and has an
\* address; invoked otherwise it sets the not-connected error and nothing
\* else: no call is started, no request reaches the server, the session and
\* every other field of the client state are as before.
C14_NotConnected ==
    [][/\ (signInCall = Idle /\ signInCall' # Idle)
            => wallet.isConnected /\ Has(wallet, "address")
       /\ (Has(client', "error") /\ client'.error = ErrNotConnected /\ client' # client)
            => /\ ~wallet.isConnected \/ ~Has(wallet, "address")
               /\ DelField(client', "error") = DelField(client, "error")
               /\ <<signInCall', checkCall', signOuts'>> = <<signInCall, checkCall, signOuts>>
               /\ <<session', issued'>> = <<session, issued>>]_vars

\* signIn was invoked with no wallet connected, on a signed-in client.
C14_Witness ==
    /\ Has(client, "error") /\ client.error = ErrNotConnected
    /\ client.isSignedIn
    /\ ~wallet.isConnected
    /\ signInCall = Idle

\* A signIn call returns: with success after an ok verify response, with a
\* failure otherwise.
SignInEnds == signInCall # Idle /\ signInCall' = Idle
SignInSucceeds ==
    /\ SignInEnds
    /\ signInCall.pc = "verifyAnswered"
    /\ signInCall.resp.status = 200
SignInFails == SignInEnds /\ ~SignInSucceeds

\* C15, as stated: when a signIn call ends in a failure, the client carries
\* a non-empty error message, isSignedIn is false and isLoading is false.
C15_FailedSignInSignedOut ==
    [][SignInFails
        => /\ Has(client', "error") /\ client'.error # <<>>
           /\ ~client'.isSignedIn
           /\ ~client'.isLoading]_vars

\* The client state says what check-session would answer for the session.
AgreesWith(c, s) ==
    LET who == {"address", "chainId", "signedInAt"} IN
    IF LoggedIn(s) /\ Has(s, "address")
    THEN c.isSignedIn /\ Pick(c, who) = Pick(s, who)
    ELSE ~c.isSignedIn /\ Pick(c, who) = EmptyObj

\* C16, as stated: when calls have run one at a time and none is in flight,
\* isSignedIn, address, chainId and signedInAt of the client equal what
\* check-session would answer for the session.
C16_Reconciled ==
    (ev.serial /\ ~InFlight) => AgreesWith(client, session)

\* C17, as stated: isLoading is true exactly when a signIn call past its
\* wallet check, a signOut call or the session check made on load is in
\* flight.
C17_LoadingIffInFlight ==
    client.isLoading <=>
        \/ signInCall # Idle
        \/ signOuts # NoSignOuts
        \/ checkCall # Idle /\ checkCall.onLoad

\* A checkSession call returns: with the answer, or through its catch.
CheckAnswered == checkCall.pc = "answered" /\ checkCall' = Idle
CheckCaught == checkCall.pc = "sent" /\ checkCall' = Idle

\* C18: applying the answer for the current session to a client state that
\* already had it applied changes nothing, so a second checkSession on an
\* unchanged session, with no call made in between, leaves the state the
\* first one left; and no step of a checkSession call changes the session.
C18_CheckSessionIdempotent ==
    /\ [](LET data == SessionView(session)
              once == Hydrate(client, data)
          IN Hydrate(once, data) = once)
    /\ [](CheckFailed(CheckFailed(client)) = CheckFailed(client))
    /\ [][checkCall' # checkCall => <<session', issued'>> = <<session, issued>>]_vars
    /\ [][(CheckAnswered /\ ev'.fired = {} /\ checkCall.data = SessionView(session'))
            => Hydrate(client', SessionView(session')) = client']_vars

\* A second session check, made by the caller after the one on load has
\* signed the client in, has been answered for the same session.
C18_Witness ==
    /\ checkCall.pc = "answered" /\ ~checkCall.onLoad
    /\ checkCall.data = SessionView(session)
    /\ issued = 0 /\ ev.serial
    /\ client.isSignedIn
    /\ client = Hydrate(client, checkCall.data)

\* The state a failed session check leaves.
CheckSessionFailed(c) ==
    /\ ~c.isSignedIn /\ ~c.isLoading
    /\ Has(c, "error") /\ c.error = ErrCheckSession

C21_LastResponseWins ==
    [][/\ SignOutConfirmed
            => /\ Identity(client') = [isSignedIn |-> FALSE]
               /\ signInCall' = signInCall
       /\ SignOutFails => signInCall' = signInCall
       /\ SignInSucceeds
            => /\ Identity(client')
                    = [isSignedIn |-> TRUE]
                      @@ Pick(signInCall.resp.body, {"address", "chainId", "signedInAt"})
               /\ signOuts'.answered = signOuts.answered
               /\ signOuts'.sent >= signOuts.sent
       /\ signInCall' # signInCall
            => /\ signOuts'.answered = signOuts.answered
               /\ signOuts'.sent >= signOuts.sent
       /\ (signOuts' # signOuts /\ signInCall' # signInCall) => SignInSucceeds]_vars

\* Both calls are over, the destroy request was handled after the verify
\* request and its response arrived first: the client is signed in with the
\* identity of the verify response, and the session is gone.
C21_Witness ==
    /\ ~InFlight
    /\ issued = 1
    /\ client.isSignedIn /\ ~Has(client, "error")
    /\ ~Has(session, "isLoggedIn")

(***************************************************************************)
(* C22.  No automatic retry.                                               *)
(***************************************************************************)
\* The caller invokes an operation of the hook.
Invocation == signIn_call \/ signIn_notConnected \/ checkSession_call \/ signOut_call

\* A call begins: its first request is sent.
CallBegins ==
    \/ signInCall = Idle /\ signInCall' # Idle
    \/ checkCall = Idle /\ checkCall' # Idle
    \/ SignOutBegins

\* A request is sent: a call begins, or the signIn in flight sends its verify
\* request.
RequestSent == CallBegins \/ (signInCall' # signInCall /\ signInCall'.pc = "verify")

\* A call ends: its last response is handled, or it fails.
CallEnds == SignInEnds \/ CheckAnswered \/ CheckCaught \/ SignOutConfirmed \/ SignOutFails

ErrorOf(c) == Pick(c, {"error"})

\* C22 as stated: while the client shows the error of a failed operation, a
\* request is sent only when the caller invokes an operation or the wallet's
\* connectivity changes, and the error message changes only when an operation
\* starts or completes.
C22_NoRequestUntilCallerOrWallet ==
    [][/\ (Has(client, "error") /\ RequestSent) => (Invocation \/ wallet' # wallet)
       /\ ErrorOf(client') # ErrorOf(client) => (Invocation \/ CallBegins \/ CallEnds)]_vars

\* C22, amended: a step in which a call fails sends no request and leaves the
\* failed call over; a request is sent only when the caller invokes an
\* operation, when the wallet's connectivity changes, when the signIn in
\* flight goes on from the signature to the verify request, or when the
\* answer of a call that was already in flight signs the client in and the
\* address check signs it out again; and the error message changes only when
\* an operation starts or completes.
C22_NoAutoRetry ==
    [][/\ (SignInFails \/ SignOutFails \/ CheckCaught)
            => /\ ~RequestSent
               /\ Has(client', "error")
       /\ RequestSent
            => \/ Invocation
               \/ wallet' # wallet
               \/ signInCall.pc = "sign"
               \/ (CheckAnswered \/ SignInSucceeds) /\ SignOutBegins
       /\ ErrorOf(client') # ErrorOf(client) => (Invocation \/ CallBegins \/ CallEnds)]_vars

\* A signIn has failed at the nonce request and nothing has been sent since:
\* the client shows the error, and no call is in flight.
C22_Witness ==
    /\ ~InFlight
    /\ Has(client, "error") /\ client.error = ErrFetchNonce
    /\ issued = 0
    /\ ~client.isLoading

(***************************************************************************)
(* C26.  signIn and the state it is invoked in.                            *)
(***************************************************************************)
\* C26 as stated: a signIn call sends its nonce request only when the client
\* is neither signed in nor loading, and the nonce route changes the session
\* for a signIn call only then.
C26_SignInOnlyFromSignedOut ==
    [][(signInCall = Idle /\ signInCall' # Idle)
        => ~client.isSignedIn /\ ~client.isLoading]_vars

(***************************************************************************)
(* C27.  The wallet fails to sign.                                         *)
(***************************************************************************)
SignFails == signInCall.pc = "sign" /\ signInCall' = Idle

C28_WatcherOnlyOnChange ==
    [][SignOutBegins
        => /\ client'.isSignedIn
           /\ ~(/\ wallet'.isConnected
                /\ Has(wallet', "address") /\ Has(client', "address")
                /\ toLowerCase(wallet'.address) = toLowerCase(client'.address))
           /\ \/ wallet' # wallet
              \/ client'.isSignedIn # client.isSignedIn
              \/ Pick(client', {"address"}) # Pick(client, {"address"})
           /\ now' = now]_vars

\* Time has passed over a signed-in client whose wallet is connected with the
\* bound address written in another letter case: no signOut was called.
C28_Witness ==
    /\ now > 1
    /\ ~InFlight
    /\ client.isSignedIn /\ wallet.isConnected
    /\ wallet.address # client.address
    /\ toLowerCase(wallet.address) = toLowerCase(client.address)
    /\ ~Has(client, "error")

(***************************************************************************)
(* Verify requests in steps.  iron-session keeps no record on the server:  *)
(* getIronSession unseals the cookie that the request carries, and save()  *)
(* seals the record into the Set-Cookie header of the response.  `session` *)
(* is the cookie the browser holds; a request carries the cookie held when *)
(* it was sent.                                                            *)
(***************************************************************************)
\* Bodies of the requests followed: a well-formed message for this site
\* without time limits, and a signature.
RaceBodies ==
    {b \in [message : FullMessages, signature : Signatures] :
        /\ b.message.prefix.domain = ServerHost
        /\ DOMAIN b.message.suffix = {"chainId", "nonce"}}

\* The request leaves the browser with the cookie held at that moment.
POST_sent ==
    \E i \in Calls, body \in RaceBodies :
        /\ calls[i].pc = "none"
        /\ calls' = [calls EXCEPT ![i] = [pc |-> "sent", cookies |-> session, body |-> body]]
        /\ UNCHANGED <<session, now, issued, req, resp>>
        /\ UNCHANGED <<clientVars, hostVars>>

\* Step 2: const session = await getIronSession(await cookies(), sessionOptions).
\* `afterSave` notes whether another followed request had saved by then.
POST_load ==
    \E i \in Calls :
        /\ calls[i].pc = "sent"
        /\ calls' = [calls EXCEPT ![i] =
                [pc |-> "loaded", loaded |-> calls[i].cookies, body |-> calls[i].body,
                 afterSave |-> \E j \in Calls \ {i} :
                                  calls[j].pc = "done" /\ calls[j].resp.status = 200]]
        /\ UNCHANGED <<session, now, issued, req, resp>>
        /\ UNCHANGED <<clientVars, hostVars>>

\* Steps 3 to 6 on the loaded record; save() on success sets the cookie.
POST_save ==
    \E i \in Calls :
        /\ calls[i].pc = "loaded"
        /\ LET out == VerifyOutcome(calls[i].loaded, calls[i].body, ServerHost, now) IN
            /\ calls' = [calls EXCEPT ![i] =
                    [pc |-> "done", loaded |-> calls[i].loaded, body |-> calls[i].body,
                     afterSave |-> calls[i].afterSave, resp |-> out.resp]]
            /\ session' = IF out.resp.status = 200 THEN out.session ELSE session
        /\ UNCHANGED <<now, issued, req, resp>>
        /\ UNCHANGED <<clientVars, hostVars>>

NextRace ==
    \/ Tick
    \/ NonceGET
    \/ POST_sent
    \/ POST_load
    \/ POST_save

SpecRace == Init /\ [][NextRace]_vars

\* Two followed requests have ended; they carried the same nonce, each with
\* a signature made by the address in its message.
SameNonceValid(i, j) ==
    /\ i # j
    /\ calls[i].pc = "done" /\ calls[j].pc = "done"
    /\ calls[i].body.message.suffix.nonce = calls[j].body.message.suffix.nonce
    /\ verifyHash(getPublicClientForChain(Opt(calls[i].body.message.suffix, "chainId")),
                  calls[i].body.message.prefix.address, calls[i].body.signature)
    /\ verifyHash(getPublicClientForChain(Opt(calls[j].body.message.suffix, "chainId")),
                  calls[j].body.message.prefix.address, calls[j].body.signature)

Succeeded(i) == calls[i].resp.status = 200

\* C20, as stated: of two verify calls with the same nonce and valid
\* signatures, one that loads the session after the other has succeeded and
\* saved fails; and when both load, before either saves, a session in which
\* that nonce is pending, both succeed.
C20_LoadAfterSaveFails ==
    \A i, j \in Calls :
        SameNonceValid(i, j) =>
            /\ (Succeeded(i) /\ calls[j].afterSave) => ~Succeeded(j)
            /\ (/\ ~calls[i].afterSave /\ ~calls[j].afterSave
                /\ Has(calls[i].loaded, "nonce") /\ Has(calls[j].loaded, "nonce")
                /\ calls[i].loaded.nonce = calls[i].body.message.suffix.nonce
                /\ calls[j].loaded.nonce = calls[j].body.message.suffix.nonce)
                 => Succeeded(i) /\ Succeeded(j)

(***************************************************************************)
(* The server starting.  The routes import utils/siwe.ts, whose top level  *)
(* computes sessionOptions: a route handles a request only after the       *)
(* module has loaded, and a module whose top level throws never loads.     *)
(***************************************************************************)
InitBoot ==
    /\ session = EmptyObj
    /\ now = 0
    /\ issued = 0
    /\ req = [op |-> "none"]
    /\ resp = Response("none", 0, EmptyObj)
    /\ calls = NoCalls
    /\ env \in Envs
    /\ sessionOptions = NotLoaded
    /\ client = InitialSiweState
    /\ wallet = [isConnected |-> FALSE]
    /\ hasSeenWalletConnected = FALSE
    /\ signInCall = Idle
    /\ checkCall = Idle
    /\ signOuts = NoSignOuts
    /\ ev = NoEvent

\* export const sessionOptions = { password: getSessionPassword(), ... }
LoadModule ==
    /\ sessionOptions = NotLoaded
    /\ sessionOptions' = Load(env)
    /\ UNCHANGED <<session, now, issued, req, resp, calls, env>>
    /\ UNCHANGED clientVars

ServeNonceGET == sessionOptions.loaded /\ NonceGET
ServeSessionGET == sessionOptions.loaded /\ SessionGET
ServeSessionDELETE == sessionOptions.loaded /\ SessionDELETE

NextBoot ==
    \/ LoadModule
    \/ ServeNonceGET
    \/ ServeSessionGET
    \/ ServeSessionDELETE

SpecBoot == InitBoot /\ [][NextBoot]_vars

(***************************************************************************)
(* C23.  The session key.                                                  *)
(***************************************************************************)
Production(e) == Has(e, "NODE_ENV") /\ e.NODE_ENV = "production"
SecretSet(e) == Has(e, "IRON_SESSION_SECRET") /\ Len(e.IRON_SESSION_SECRET) > 0

\* C23: in production, without a secret or with a secret of fewer than 32
\* characters, loading the module fails with an error and no request is ever
\* served; a request is served only once the module has loaded; the key
\* then in use has at least 32 characters, and it is the fixed fallback key
\* only when the environment is not production and no secret is set, and
\* the secret otherwise.
C23_SessionKey ==
    /\ (Production(env)
        /\ (~SecretSet(env) \/ Len(env.IRON_SESSION_SECRET) < MinSecretLength))
            => /\ ~sessionOptions.loaded
               /\ sessionOptions # NotLoaded => Has(sessionOptions, "error")
               /\ req.op = "none"
    /\ req.op # "none" => sessionOptions.loaded
    /\ sessionOptions.loaded
            => /\ Len(sessionOptions.password) >= MinSecretLength
               /\ sessionOptions.password = DevFallback
                    => ~Production(env) /\ ~SecretSet(env)
               /\ sessionOptions.password # DevFallback
                    => SecretSet(env) /\ sessionOptions.password = env.IRON_SESSION_SECRET

\* In production with a secret of 16 characters the module has failed to
\* load, with the error that asks for 32.
C23_Witness ==
    /\ Production(env)
    /\ SecretSet(env) /\ Len(env.IRON_SESSION_SECRET) = 16
    /\ ~sessionOptions.loaded
    /\ Has(sessionOptions, "error") /\ sessionOptions.error = ErrSecretTooShort

(***************************************************************************)
(* The routes again, with two more inputs: getIronSession may throw in the *)
(* session route, and the messages verified name any chain and may come    *)
(* from smart-contract accounts.                                           *)
(***************************************************************************)
ChainIds == {0, mainnet, 5, 31337}       \* 5 is not in SUPPORTED_CHAINS
ChainAccounts == {"0xA", "0xC", "0xD"}

\* Messages for this site: every account on every chain, and one in which
\* the part that holds the chain id and the nonce does not match.
ChainMessages ==
    {[prefix |-> [domain |-> ServerHost, address |-> a],
      suffix |-> [chainId |-> c, nonce |-> n]] :
        a \in ChainAccounts, c \in ChainIds, n \in Nonces}
    \cup {[prefix |-> [domain |-> ServerHost, address |-> a], suffix |-> EmptyObj] :
            a \in ChainAccounts}

ChainRequests ==
    [op : {"verify"}, json : {TRUE},
     body : [message : ChainMessages, signature : Signatures], host : {ServerHost}]

\* POST /api/siwe/verify with one of these requests.
VerifyChains ==
    \E r \in ChainRequests :
        /\ req' = r
        /\ LET out == VerifyOutcome(session, r.body, r.host, now) IN
            /\ session' = out.session
            /\ resp' = out.resp
        /\ UNCHANGED <<now, issued, calls>>
        /\ UNCHANGED <<clientVars, hostVars>>

NextRoutes ==
    \/ Tick
    \/ NonceGET
    \/ SessionGET
    \/ SessionGET_catch
    \/ SessionDELETE
    \/ VerifyChains

SpecRoutes == Init /\ [][NextRoutes]_vars

(***************************************************************************)
(* C29.  What check-session discloses.                                     *)
(***************************************************************************)
\* C29: check-session answers with address, chainId and signedInAt only for
\* a session that is authenticated (logged in, with an address); for every
\* other session (none, a pending nonce, a nonce issued again after a login,
\* a destroyed one) and when the session cannot be loaded it answers
\* exactly { isLoggedIn: false }; no answer carries the pending nonce.
C29_SessionDisclosure ==
    [][Handled("session")
        => /\ resp'.body # [isLoggedIn |-> FALSE]
                => /\ LoggedIn(session) /\ Has(session, "address")
                   /\ resp'.body = [isLoggedIn |-> TRUE]
                        @@ Pick(session, {"address", "chainId", "signedInAt"})
           /\ ~(LoggedIn(session) /\ Has(session, "address"))
                => resp'.body = [isLoggedIn |-> FALSE]
           /\ ~Has(resp'.body, "nonce")]_vars

\* Check-session has answered the default shape for a session that holds a
\* pending nonce and no identity.
C29_Witness ==
    /\ req.op = "session"
    /\ resp.body = [isLoggedIn |-> FALSE]
    /\ Has(session, "nonce") /\ ~Has(session, "address")

(***************************************************************************)
(* C30.  The chain a signature is verified on.                             *)
(***************************************************************************)
\* The chain whose oracle verifies request r: the chain the message names if
\* the route supports it, mainnet otherwise.
OracleChain(r) ==
    IF MsgHas(r, "suffix", "chainId") /\ r.body.message.suffix.chainId \in SUPPORTED_CHAINS
    THEN r.body.message.suffix.chainId
    ELSE mainnet

\* The signature of r is valid for the address of its message on `chain`: a
\* contract deployed there accepts its owner's, elsewhere the address's own is.
SignatureValidOn(r, chain) ==
    /\ MsgHas(r, "prefix", "address")
    /\ LET address == r.body.message.prefix.address IN
        Signer(r.body.signature) = IF chain \in Deployed(address)
                                   THEN Owner(address) ELSE address

\* C30: a verify call whose message passes the domain, nonce and time checks
\* succeeds exactly when its signature is valid on the chain the message
\* names, or on mainnet when the route does not support that chain; the
\* fallback chooses the oracle only: the chainId stored in the session and
\* returned is the one the message carries.
C30_OracleChain ==
    [][(Handled("verify") /\ ReachesTimeChecks(req', session)
        /\ ~MsgExpiredAt(req', now) /\ ~MsgEarlyAt(req', now))
        => /\ resp'.status = 200 <=> SignatureValidOn(req', OracleChain(req'))
           /\ resp'.status = 200
                => /\ Has(session', "chainId")
                   /\ session'.chainId = req'.body.message.suffix.chainId
                   /\ resp'.body.chainId = req'.body.message.suffix.chainId]_vars

\* A contract account deployed on mainnet has signed in with a message that
\* names chain 5: the session is bound to chain 5.
C30_Witness ==
    /\ LoggedIn(session)
    /\ session.address = "0xC"
    /\ session.chainId = 5
    /\ req.op = "verify" /\ resp.status = 200

(***************************************************************************)
(* C32.  A pending nonce and a login never coexist.                        *)
(***************************************************************************)
\* C32: no session record written by a route holds a nonce while isLoggedIn
\* is true: the nonce route stores the nonce with isLoggedIn false, a
\* successful verify sets isLoggedIn true and removes the nonce, and destroy
\* removes both.
C32_NonceXorLogin ==
    [][/\ ~(Has(session', "nonce") /\ LoggedIn(session'))
       /\ Handled("nonce")
            => /\ Has(session', "nonce")
               /\ Has(session', "isLoggedIn") /\ ~session'.isLoggedIn
       /\ (Handled("verify") /\ resp'.status = 200)
            => LoggedIn(session') /\ ~Has(session', "nonce")
       /\ Handled("destroy")
            => ~Has(session', "nonce") /\ ~Has(session', "isLoggedIn")]_vars

\* The nonce route has handled a request that carried a logged-in session:
\* the record holds the new nonce and the old identity, and is logged out.
C32_Witness ==
    /\ req.op = "nonce"
    /\ Has(session, "nonce") /\ Has(session, "address")
    /\ Has(session, "isLoggedIn") /\ ~session.isLoggedIn

(***************************************************************************)
(* C34.  The identity fields and isSignedIn.                               *)
(***************************************************************************)
\* C34 as stated: in every state of the client, isSignedIn false implies
\* that address, chainId and signedInAt are null, and isSignedIn true
\* implies that address is not null.
C34_IdentityFollowsFlag ==
    /\ ~client.isSignedIn
            => Pick(client, {"address", "chainId", "signedInAt"}) = EmptyObj
    /\ client.isSignedIn => Has(client, "address")

(***************************************************************************)
(* C33.  A session check that overlaps signIn or signOut.                  *)
(***************************************************************************)
\* C33 as stated: when the answer of a session check was computed from the
\* session before a signIn or signOut changed it, and arrives after that
\* call is over, it does not overwrite the newer state: with nothing left in
\* flight, isSignedIn of the client equals isLoggedIn of the session.
C33_StaleCheckIgnored ==
    [][(/\ CheckAnswered
        /\ checkCall.data # SessionView(session)
        /\ signInCall = Idle /\ signOuts = NoSignOuts
        /\ signInCall' = Idle /\ signOuts' = NoSignOuts)
        => client'.isSignedIn = LoggedIn(session')]_vars

(***************************************************************************)
(* C31.  The challenge message signIn builds.                              *)
(***************************************************************************)
\* C31: signIn keeps the address the wallet reported when it was invoked and
\* the nonce the nonce route stored and returned for this call; the message
\* it builds carries that nonce, that address (in checksum form) and the
\* chain of that account, the host and origin of the page, issuedAt = now and
\* expirationTime = now + the configured window, which is strictly later;
\* and the message is in the client state in the step that asks the wallet
\* for the signature.
C31_ChallengeMessage ==
    [][/\ (signInCall = Idle /\ signInCall' # Idle)
            => signInCall'.address = wallet.address
       /\ (signInCall.pc = "nonce" /\ signInCall'.pc = "nonceAnswered")
            => /\ signInCall'.nonce = session'.nonce
               /\ signInCall'.address = signInCall.address
       /\ (signInCall.pc = "nonceAnswered" /\ signInCall'.pc = "sign")
            => LET m == signInCall'.message IN
               /\ m.suffix.nonce = signInCall.nonce
               /\ toLowerCase(m.prefix.address) = toLowerCase(signInCall.address)
               /\ m.suffix.chainId = AccountOf(signInCall.address).chainId
               /\ m.prefix.domain = ServerHost
               /\ m.suffix.uri = Origin
               /\ m.suffix.issuedAt = now
               /\ m.suffix.expirationTime = now + messageExpirationMinutes
               /\ m.suffix.expirationTime > m.suffix.issuedAt
               /\ Has(client', "siweMessage") /\ client'.siweMessage = m]_vars

\* The wallet is asked to sign a message built for the account that was
\* connected when signIn was invoked, while another account is connected.
C31_Witness ==
    /\ signInCall.pc = "sign"
    /\ Has(client, "siweMessage") /\ client.siweMessage = signInCall.message
    /\ Has(wallet, "address")
    /\ toLowerCase(wallet.address) # toLowerCase(signInCall.message.prefix.address)

(***************************************************************************)
(* A client that keeps copies of its cookies.  The sealed cookie is the    *)
(* only record of the session (utils/siwe.ts: sessionOptions names the     *)
(* cookie; the routes keep nothing else), so a copy taken when it was set  *)
(* unseals to the record it held then.  A slot of `calls` holds a copy,    *)
(* the bodies that were accepted with it, and those accepted with it       *)
(* again.                                                                  *)
(***************************************************************************)
\* The client copies the cookie it holds.
KeepCookie ==
    \E i \in Calls :
        /\ calls[i].pc = "none"
        /\ session # EmptyObj
        /\ \A j \in Calls : calls[j].pc = "kept" => calls[j].cookies # session
        /\ calls' = [calls EXCEPT ![i] =
                [pc |-> "kept", cookies |-> session, accepted |-> {}, again |-> {}]]
        /\ UNCHANGED <<session, now, issued, req, resp>>
        /\ UNCHANGED <<clientVars, hostVars>>

\* POST /api/siwe/verify with a kept copy as the request's cookie.  On
\* success save() sets the browser's cookie; a failure return sets none.
ReplayPOST ==
    \E i \in Calls, body \in RaceBodies :
        /\ calls[i].pc = "kept"
        /\ LET out == VerifyOutcome(calls[i].cookies, body, ServerHost, now)
               ok == out.resp.status = 200
           IN
            /\ req' = [op |-> "verify", json |-> TRUE, body |-> body, host |-> ServerHost]
            /\ resp' = out.resp
            /\ session' = IF ok THEN out.session ELSE session
            /\ calls' = [calls EXCEPT ![i] =
                    [pc |-> "kept", cookies |-> calls[i].cookies,
                     accepted |-> IF ok THEN calls[i].accepted \cup {body}
                                        ELSE calls[i].accepted,
                     again |-> IF ok /\ body \in calls[i].accepted
                               THEN calls[i].again \cup {body}
                               ELSE calls[i].again]]
        /\ UNCHANGED <<now, issued>>
        /\ UNCHANGED <<clientVars, hostVars>>

NextReplay ==
    \/ Tick
    \/ NonceGET
    \/ SessionDELETE
    \/ KeepCookie
    \/ ReplayPOST

SpecReplay == Init /\ [][NextReplay]_vars

\* C35, as stated: a verify request that presents a kept earlier cookie with
\* a message and signature that were already accepted is rejected, so no
\* signed message promotes a session twice.
C35_ReplayRejected ==
    \A i \in Calls : calls[i].pc = "kept" => calls[i].again = {}

(***************************************************************************)
(* The page with every request of signIn and signOut answered or failing:  *)
(* such a request in flight (to a route, or to the wallet for the          *)
(* signature) is eventually handled or rejects, and a handled request's    *)
(* response eventually arrives.  The caller invokes signIn and signOut;    *)
(* the wallet stays as the page found it, and the only session check is    *)
(* the one made on mount, about which nothing is assumed.                  *)
(***************************************************************************)
NextLive ==
    \/ checkSession_served
    \/ checkSession_ok
    \/ checkSession_catch
    \/ signIn_notConnected
    \/ signIn_call
    \/ signIn_nonceServed
    \/ signIn_nonceFailed
    \/ signIn_message
    \/ signIn_signed
    \/ signIn_signFailed
    \/ signIn_verifyServed
    \/ signIn_verified
    \/ signIn_catch
    \/ signOut_call
    \/ signOut_served
    \/ signOut_ok
    \/ signOut_catch

SpecLive ==
    /\ InitClient
    /\ [][NextLive]_vars
    /\ WF_vars(signIn_nonceServed \/ signIn_nonceFailed)
    /\ WF_vars(signIn_message)
    /\ WF_vars(signIn_signed \/ signIn_signFailed)
    /\ WF_vars(signIn_verifyServed \/ signIn_catch)
    /\ WF_vars(signIn_verified)
    /\ WF_vars(signOut_served \/ signOut_catch)
    /\ WF_vars(signOut_ok)

\* The step in which the signIn call in flight returns.
SignInExits == signInCall # Idle /\ signInCall' = Idle

\* The step in which a signOut call returns: its response arrives, or its
\* request fails.
SignOutExits ==
    \/ signOuts'.answered < signOuts.answered
    \/ signOuts'.sent < signOuts.sent /\ signOuts'.answered = signOuts.answered

\* C36: with every request answered or failing, a signIn call that passed
\* the wallet check returns, and signOut calls do not stay in flight without
\* one of them returning (again and again no signOut call is in flight, or
\* again and again one returns); the step in which a call returns sets
\* isLoading to false, unless an effect calls signOut() in that same step,
\* which sets it again.
C36_CallsReturn ==
    /\ [][(SignInExits \/ SignOutExits)
            => (ev'.fired = {} => ~client'.isLoading)]_vars
    /\ (signInCall # Idle) ~> (signInCall = Idle)
    /\ \/ []<>(signOuts = NoSignOuts)
       \/ []<><<SignOutExits>>_vars

\* A signIn call has taken the outer catch and nothing is in flight.
C36_Witness ==
    /\ ~InFlight
    /\ issued > 0
    /\ ~client.isLoading
    /\ Has(client, "error") /\ client.error = getErrorMessage(Thrown(ErrFetch), ErrFallback)


=============================================================================
